---- MODULE Spec2Model ----
(***************************************************************************)
(* Model of smart_rename_papers.py: the metadata resolution of process_pdf *)
(* (DOI -> Crossref -> embedded metadata -> defaults), compose_name with   *)
(* sanitize / to_initials / truncate_filename, and safe_rename with the    *)
(* batch loop of main.                                                     *)
(*                                                                         *)
(* Python strings are sequences of one-character strings.  An Optional     *)
(* value is None (the empty tuple) or Some(v) (the one-element tuple).     *)
(***************************************************************************)
EXTENDS Integers, Sequences, FiniteSets, TLC

VARIABLES
    \* ---- process_pdf ----
    doc,            \* the PDF on disk: name, openable, pages, embedded metadata
    local_only,     \* the local_only argument
    pc,             \* position in process_pdf
    text_first,     \* text of the first pages
    doi,            \* result of find_doi (Optional string)
    lookup,         \* "none" | "ok" | "failed": how query_crossref_by_doi ended
    msg,            \* the record query_crossref_by_doi returned
    title, first_author, publisher,     \* the three fields (Optional strings)
    log,            \* the provenance log
    result,         \* what process_pdf returned (Optional)
    regCalls,       \* number of calls of query_crossref_by_doi
    metaReads,      \* number of reads of doc.metadata
    \* ---- safe_rename and main ----
    fs,             \* the directory: entry name -> the document stored there
    fs0,            \* the directory when the run started
    platform,       \* "posix" | "windows": what Path.rename does on a taken target
    entry,          \* "main" | "safe_rename" | "concurrent": who calls safe_rename
    dry_run,        \* args.dry_run of main
    pdfs,           \* files main still has to process
    outcome,        \* main's outcome lines, one per processed file
    calls,          \* the safe_rename activations, one per caller
    interleaved,    \* a call ran a step while another call was in progress
    \* ---- compose_name ----
    cn_args,        \* arguments of compose_name
    cn_name         \* its result (Optional)

pipeVars == <<doc, local_only, pc, text_first, doi, lookup, msg, title,
              first_author, publisher, log, result, regCalls, metaReads>>
renVars  == <<fs, fs0, platform, entry, dry_run, pdfs, outcome, calls, interleaved>>
compVars == <<cn_args, cn_name>>
vars     == <<pipeVars, renVars, compVars>>

--------------------------------------------------------------------------
(* Python values *)

None == <<>>
Some(x) == <<x>>
Val(o) == o[1]
\* truth value of an Optional string or list: None, '' and [] are falsy
Truthy(o) == o # None /\ Val(o) # <<>>

Digits == {"0", "1", "2", "3", "4", "5", "6", "7", "8", "9"}
Lower == {"a", "b", "c", "d", "e", "f", "g", "h", "i", "j", "k", "l", "m",
          "n", "o", "p", "q", "r", "s", "t", "u", "v", "w", "x", "y", "z"}
Upper == {"A", "B", "C", "D", "E", "F", "G", "H", "I", "J", "K", "L", "M",
          "N", "O", "P", "Q", "R", "S", "T", "U", "V", "W", "X", "Y", "Z"}
Alpha == Lower \cup Upper
\* the characters \s matches
Whitespace == {" ", "\t", "\n"}

\* s without its leading characters that are in cs
lstrip(s, cs) ==
    LET keep == {k \in 1..Len(s) : s[k] \notin cs}
    IN  IF keep = {} THEN <<>>
        ELSE SubSeq(s, CHOOSE k \in keep : \A j \in keep : k <= j, Len(s))

\* s without its trailing characters that are in cs
rstrip(s, cs) ==
    LET keep == {k \in 1..Len(s) : s[k] \notin cs}
    IN  IF keep = {} THEN <<>>
        ELSE SubSeq(s, 1, CHOOSE k \in keep : \A j \in keep : j <= k)

\* str.strip()
strip(s) == lstrip(rstrip(s, Whitespace), Whitespace)

\* sep.join(parts)
RECURSIVE join(_, _)
join(sep, parts) ==
    IF parts = <<>> THEN <<>>
    ELSE IF Len(parts) = 1 THEN parts[1]
    ELSE parts[1] \o sep \o join(sep, Tail(parts))

\* number of consecutive characters of s from index i on that are in cs
RunLen(s, i, cs) ==
    LET stops == {k \in i..Len(s) : s[k] \notin cs}
    IN  IF i > Len(s) THEN 0
        ELSE IF stops = {} THEN Len(s) - i + 1
        ELSE (CHOOSE k \in stops : \A j \in stops : k <= j) - i

Min(S) == CHOOSE x \in S : \A y \in S : x <= y

--------------------------------------------------------------------------
(* Data extraction *)

DoiMinDigits == 4
DoiMaxDigits == 9
DoiTokenChars == {"-", ".", "_", ";", "(", ")", "/", ":"} \cup Alpha \cup Digits
DoiTrailing == {")", ".", ",", ";", "]", "}", ">"}

\* DOI_PATTERN matched at index i of s: the index of the last character of the
\* match, or 0.  \d{4,9} must be followed by "/", which is no digit, so the
\* whole run of digits has to be 4 to 9 long; the token is matched greedily.
DoiMatchEnd(s, i) ==
    IF i + 2 <= Len(s) /\ s[i] = "1" /\ s[i + 1] = "0" /\ s[i + 2] = "."
    THEN LET d == RunLen(s, i + 3, Digits)
             j == i + 3 + d
             t == RunLen(s, j + 1, DoiTokenChars)
         IN  IF /\ d >= DoiMinDigits
                /\ d <= DoiMaxDigits
                /\ j <= Len(s)
                /\ s[j] = "/"
                /\ t >= 1
             THEN j + t
             ELSE 0
    ELSE 0

find_doi(text) ==
    LET starts == {i \in 1..Len(text) : DoiMatchEnd(text, i) > 0}
    IN  IF starts = {} THEN None
        ELSE LET i == Min(starts)
             IN  Some(rstrip(SubSeq(text, i, DoiMatchEnd(text, i)), DoiTrailing))

max_pages == 2

\* a page is Some(text), or None when load_page / get_text raises
extract_visible_text(d) ==
    LET n == IF Len(d.pages) < max_pages THEN Len(d.pages) ELSE max_pages
        readable == SelectSeq(SubSeq(d.pages, 1, n), LAMBDA p : p # None)
    IN  join(<<"\n">>, [k \in 1..Len(readable) |-> Val(readable[k])])

--------------------------------------------------------------------------
(* Utilities and compose_name *)

INVALID_CHARS == {"<", ">", ":", "\"", "/", "\\", "|", "?", "*"}
REPLACEMENT == " "

\* re.sub(r'\s+', ' ', text): of every run of whitespace the first character
\* stays, as a space
collapse(s) ==
    LET kept == SelectSeq([k \in 1..Len(s) |-> k],
                    LAMBDA k : s[k] \notin Whitespace \/ k = 1 \/ s[k - 1] \notin Whitespace)
    IN  [k \in 1..Len(kept) |-> IF s[kept[k]] \in Whitespace THEN " " ELSE s[kept[k]]]

sanitize(text) ==
    LET replaced == [k \in 1..Len(text) |->
                        IF text[k] \in INVALID_CHARS THEN REPLACEMENT ELSE text[k]]
    IN  strip(collapse(replaced))

max_len == 180

truncate_filename(name, limit) ==
    IF Len(name) <= limit THEN name
    ELSE rstrip(SubSeq(name, 1, limit), Whitespace)

LowerSeq == <<"a", "b", "c", "d", "e", "f", "g", "h", "i", "j", "k", "l", "m",
              "n", "o", "p", "q", "r", "s", "t", "u", "v", "w", "x", "y", "z">>
UpperSeq == <<"A", "B", "C", "D", "E", "F", "G", "H", "I", "J", "K", "L", "M",
              "N", "O", "P", "Q", "R", "S", "T", "U", "V", "W", "X", "Y", "Z">>
upper(c) ==
    IF c \in Lower THEN UpperSeq[CHOOSE k \in 1..Len(LowerSeq) : LowerSeq[k] = c] ELSE c

NA == <<"N", "A">>
\* the characters re.split(r'[\s\-]+', ...) splits on
InitialSeparators == Whitespace \cup {"-"}

\* The names of the model hold no "@" and no word ORCID, so the two re.sub
\* calls that blank out e-mail addresses and ORCID tags leave them unchanged.
\* The initials are the first characters of the tokens between separators,
\* kept when alphabetic, upper-cased.
to_initials(name) ==
    IF name = <<>> THEN NA
    ELSE LET n == strip(name)
             firsts == SelectSeq([k \in 1..Len(n) |-> k],
                           LAMBDA k : /\ n[k] \notin InitialSeparators
                                      /\ (k = 1 \/ n[k - 1] \in InitialSeparators)
                                      /\ n[k] \in Alpha)
         IN  IF firsts = <<>> THEN NA
             ELSE [k \in 1..Len(firsts) |-> upper(n[firsts[k]])]

UnknownPublisher == <<"U", "n", "k", "n", "o", "w", "n", " ", "P", "u", "b", "l", "i", "s", "h", "e", "r">>
Untitled == <<"U", "n", "t", "i", "t", "l", "e", "d">>
UnknownAuthor == <<"U", "n", "k", "n", "o", "w", "n", " ", "A", "u", "t", "h", "o", "r">>
DotPdf == <<".", "p", "d", "f">>
Dash == <<" ", "-", " ">>

\* x or default, for an Optional string x
OrDefault(x, default) == IF Truthy(x) THEN Val(x) ELSE default

compose_name(pub_arg, title_arg, author_arg) ==
    LET pub == sanitize(OrDefault(pub_arg, UnknownPublisher))
        ttl == sanitize(OrDefault(title_arg, Untitled))
        auth_initials == to_initials(OrDefault(author_arg, UnknownAuthor))
    IN  truncate_filename(pub \o Dash \o ttl \o Dash \o auth_initials \o DotPdf, max_len)

--------------------------------------------------------------------------
(* pathlib *)

\* 1-based index of the last "." of a name, 0 when there is none
LastDot(name) ==
    LET dots == {k \in 1..Len(name) : name[k] = "."}
    IN  IF dots = {} THEN 0 ELSE CHOOSE k \in dots : \A j \in dots : j <= k

\* PurePath.suffix / PurePath.stem: a leading or trailing dot starts no suffix
HasSuffix(name) == LastDot(name) > 1 /\ LastDot(name) < Len(name)
suffix(name) == IF HasSuffix(name) THEN SubSeq(name, LastDot(name), Len(name)) ELSE <<>>
stem(name) == IF HasSuffix(name) THEN SubSeq(name, 1, LastDot(name) - 1) ELSE name

--------------------------------------------------------------------------
(* process_pdf *)

\* Documents and registry answers the runs are drawn from
MaxPageCount == 3

S_Foo == <<"F", "o", "o">>
S_FooPadded == <<" ", "F", "o", "o", " ">>
S_ASmith == <<"A", ".", " ", "S", "m", "i", "t", "h">>
S_Jane == <<"J", "a", "n", "e">>
S_Doe == <<"D", "o", "e">>
S_ACME == <<"A", "C", "M", "E">>
S_RegTitle == <<"O", "n", ":", " ", "X">>
T_doi == <<"s", "e", "e", " ", "1", "0", ".", "1", "0", "0", "0", "/", "x", "1", ".">>
T_short == <<"1", "0", ".", "1", "/", "a", "b", "c">>
N_a == <<"a", ".", "p", "d", "f">>

PageTexts == {None, Some(T_doi), Some(T_short)}
PageLists == UNION {[1..n -> PageTexts] : n \in 0..MaxPageCount}
\* meta.get('title') / meta.get('author'): absent, empty, blank or a text
MetaTitles == {None, Some(<<>>), Some(<<" ">>), Some(S_FooPadded)}
MetaAuthors == {None, Some(<<"\t">>), Some(S_ASmith)}

Docs ==
    [name : {N_a}, openable : {TRUE}, pages : PageLists,
     meta_title : MetaTitles, meta_author : MetaAuthors]
    \cup [name : {N_a}, openable : {FALSE}, pages : {<<>>},
          meta_title : {None}, meta_author : {None}]

\* msg.get('title'): absent, [], [''] or [text]
RegTitles == {None, Some(<<>>), Some(<< <<>> >>), Some(<<S_RegTitle>>)}
\* an author entry; wellformed is FALSE when a0.get(...) or the join raises
\* (the entry is no mapping, or a name part is null)
RegAuthorEntries ==
    [given : {<<>>, S_Jane}, family : {<<>>, S_Doe}, wellformed : {TRUE}]
    \cup [given : {<<>>}, family : {<<>>}, wellformed : {FALSE}]
RegAuthors == {None, Some(<<>>)} \cup {Some(<<a>>) : a \in RegAuthorEntries}
RegPublishers == {None, Some(<<>>), Some(S_ACME)}
Messages == [title : RegTitles, author : RegAuthors, publisher : RegPublishers]
NoMessage == [title |-> None, author |-> None, publisher |-> None]

\* a log entry; arg carries the DOI of "found DOI ..."
E(text) == [text |-> text, arg |-> <<>>]
FoundDoi(d) == [text |-> "found DOI", arg |-> d]

Fields == [title |-> title, first_author |-> first_author, publisher |-> publisher,
           log |-> log, raised |-> FALSE]

\* lines 126-137: the fields taken from the Crossref record; an exception in
\* the author entry ends the block in the except clause
ApplyRecord(st, m) ==
    LET s1 == IF ~Truthy(st.title) /\ Truthy(m.title)
              THEN [st EXCEPT !.title = Some(Val(m.title)[1]),
                              !.log = Append(@, E("title from Crossref"))]
              ELSE st
        a0 == Val(m.author)[1]
        s2 == IF ~Truthy(s1.first_author) /\ Truthy(m.author)
              THEN IF a0.wellformed
                   THEN [s1 EXCEPT
                           !.first_author =
                               Some(strip(join(<<" ">>, <<a0.given, a0.family>>))),
                           !.log = Append(@, E("author from Crossref"))]
                   ELSE [s1 EXCEPT !.raised = TRUE]
              ELSE s1
    IN  IF s2.raised
        THEN [s2 EXCEPT !.log = Append(@, E("Crossref failed"))]
        ELSE IF ~Truthy(s2.publisher) /\ Truthy(m.publisher)
             THEN [s2 EXCEPT !.publisher = Some(Val(m.publisher)),
                             !.log = Append(@, E("publisher from Crossref"))]
             ELSE s2

\* line 140
NeedsEmbedded(st) == ~(Truthy(st.title) /\ Truthy(st.first_author))

\* mutant: the embedded values are taken whether or not the field is set
ApplyEmbedded_Overwrites(st, d) ==
    LET s1 == IF Truthy(d.meta_title)
              THEN [st EXCEPT !.title = Some(strip(Val(d.meta_title))),
                              !.log = Append(@, E("title from embedded metadata"))]
              ELSE st
    IN  IF Truthy(d.meta_author)
        THEN [s1 EXCEPT !.first_author = Some(strip(Val(d.meta_author))),
                        !.log = Append(@, E("author from embedded metadata"))]
        ELSE s1

\* lines 141-147
ApplyEmbedded(st, d) ==
    LET s1 == IF ~Truthy(st.title) /\ Truthy(d.meta_title)
              THEN [st EXCEPT !.title = Some(strip(Val(d.meta_title))),
                              !.log = Append(@, E("title from embedded metadata"))]
              ELSE st
    IN  IF ~Truthy(s1.first_author) /\ Truthy(d.meta_author)
        THEN [s1 EXCEPT !.first_author = Some(strip(Val(d.meta_author))),
                        !.log = Append(@, E("author from embedded metadata"))]
        ELSE s1

\* mutant: no default for the publisher
ApplyDefaults_NoPublisher(st, d) ==
    LET s1 == IF ~Truthy(st.title)
              THEN [st EXCEPT !.title = Some(stem(d.name)),
                              !.log = Append(@, E("fallback: title from filename"))]
              ELSE st
    IN  IF ~Truthy(s1.first_author)
        THEN [s1 EXCEPT !.first_author = Some(UnknownAuthor),
                        !.log = Append(@, E("fallback: unknown author"))]
        ELSE s1

\* lines 150-158
ApplyDefaults(st, d) ==
    LET s1 == IF ~Truthy(st.title)
              THEN [st EXCEPT !.title = Some(stem(d.name)),
                              !.log = Append(@, E("fallback: title from filename"))]
              ELSE st
        s2 == IF ~Truthy(s1.first_author)
              THEN [s1 EXCEPT !.first_author = Some(UnknownAuthor),
                              !.log = Append(@, E("fallback: unknown author"))]
              ELSE s1
    IN  IF ~Truthy(s2.publisher)
        THEN [s2 EXCEPT !.publisher = Some(UnknownPublisher),
                        !.log = Append(@, E("fallback: unknown publisher"))]
        ELSE s2

SetFields(st) ==
    /\ title' = st.title
    /\ first_author' = st.first_author
    /\ publisher' = st.publisher
    /\ log' = st.log

InitPipe ==
    /\ doc \in Docs
    /\ local_only \in BOOLEAN
    /\ pc = "open"
    /\ text_first = <<>>
    /\ doi = None
    /\ lookup = "none"
    /\ msg = NoMessage
    /\ title = None /\ first_author = None /\ publisher = None
    /\ log = <<>>
    /\ result = None
    /\ regCalls = 0
    /\ metaReads = 0

\* mutant: the DOI route is taken with local_only too
Open_IgnoresLocalOnly ==
    /\ pc = "open"
    /\ IF doc.openable
       THEN /\ text_first' = extract_visible_text(doc)
            /\ pc' = "find_doi"
       ELSE /\ pc' = "raised"
            /\ UNCHANGED text_first
    /\ UNCHANGED <<doc, local_only, doi, lookup, msg, title, first_author,
                   publisher, log, result, regCalls, metaReads>>

\* lines 110-120: open the document and read its leading text
Open ==
    /\ pc = "open"
    /\ IF doc.openable
       THEN /\ text_first' = extract_visible_text(doc)
            /\ pc' = IF local_only THEN "embedded" ELSE "find_doi"
       ELSE /\ pc' = "raised"
            /\ UNCHANGED text_first
    /\ UNCHANGED <<doc, local_only, doi, lookup, msg, title, first_author,
                   publisher, log, result, regCalls, metaReads>>

\* mutant: the DOI found is not logged
FindDoi_Silent ==
    /\ pc = "find_doi"
    /\ doi' = find_doi(text_first)
    /\ pc' = IF Truthy(doi') THEN "query" ELSE "embedded"
    /\ UNCHANGED <<doc, local_only, text_first, lookup, msg, title, first_author,
                   publisher, log, result, regCalls, metaReads>>

\* lines 122-124
FindDoi ==
    /\ pc = "find_doi"
    /\ doi' = find_doi(text_first)
    /\ IF Truthy(doi')
       THEN log' = Append(log, FoundDoi(Val(doi'))) /\ pc' = "query"
       ELSE log' = log /\ pc' = "embedded"
    /\ UNCHANGED <<doc, local_only, text_first, lookup, msg, title, first_author,
                   publisher, result, regCalls, metaReads>>

\* mutant: the exception of the request is not caught
QueryFails_Propagates ==
    /\ pc = "query"
    /\ regCalls' = regCalls + 1
    /\ lookup' = "failed"
    /\ pc' = "raised"
    /\ UNCHANGED <<doc, local_only, text_first, doi, msg, title, first_author,
                   publisher, log, result, metaReads>>

\* line 125 with lines 91-97: the request fails (connection, status, body)
QueryFails ==
    /\ pc = "query"
    /\ regCalls' = regCalls + 1
    /\ lookup' = "failed"
    /\ log' = Append(log, E("Crossref failed"))
    /\ pc' = "embedded"
    /\ UNCHANGED <<doc, local_only, text_first, doi, msg, title, first_author,
                   publisher, result, metaReads>>

\* line 125 with lines 91-97: the request returns the message of the record
QueryReturns ==
    /\ pc = "query"
    /\ regCalls' = regCalls + 1
    /\ lookup' = "ok"
    /\ msg' \in Messages
    /\ pc' = "record"
    /\ UNCHANGED <<doc, local_only, text_first, doi, title, first_author,
                   publisher, log, result, metaReads>>

\* lines 126-137
Record ==
    /\ pc = "record"
    /\ SetFields(ApplyRecord(Fields, msg))
    /\ pc' = "embedded"
    /\ UNCHANGED <<doc, local_only, text_first, doi, lookup, msg, result,
                   regCalls, metaReads>>

\* lines 140-147
Embedded ==
    /\ pc = "embedded"
    /\ IF NeedsEmbedded(Fields)
       THEN SetFields(ApplyEmbedded(Fields, doc)) /\ metaReads' = metaReads + 1
       ELSE UNCHANGED <<title, first_author, publisher, log, metaReads>>
    /\ pc' = "defaults"
    /\ UNCHANGED <<doc, local_only, text_first, doi, lookup, msg, result, regCalls>>

\* lines 150-158
Defaults ==
    /\ pc = "defaults"
    /\ SetFields(ApplyDefaults(Fields, doc))
    /\ pc' = "return"
    /\ UNCHANGED <<doc, local_only, text_first, doi, lookup, msg, result,
                   regCalls, metaReads>>

\* lines 160-163; why is the log, which the code joins with '; '
Return ==
    /\ pc = "return"
    /\ result' = Some([src_name |-> doc.name,
                       new_name |-> compose_name(publisher, title, first_author),
                       why |-> log])
    /\ pc' = "done"
    /\ UNCHANGED <<doc, local_only, text_first, doi, lookup, msg, title,
                   first_author, publisher, log, regCalls, metaReads>>

--------------------------------------------------------------------------
(* safe_rename *)

\* how many numbered copies "Foo (k).pdf" a directory may hold at the start
MaxTaken == 2
\* how many files main is given
MaxPdfs == 2

N_Foo == <<"F", "o", "o", ".", "p", "d", "f">>
N_Bar == <<"B", "a", "r", ".", "p", "d", "f">>

DigitSeq == <<"0", "1", "2", "3", "4", "5", "6", "7", "8", "9">>
\* str(i) of a natural number, as the f-string formats it
RECURSIVE str(_)
str(i) ==
    IF i < Len(DigitSeq) THEN <<DigitSeq[i + 1]>>
    ELSE str(i \div Len(DigitSeq)) \o <<DigitSeq[(i % Len(DigitSeq)) + 1]>>

\* line 54: f"{stem} ({i}){suf}"
Candidate(st, i, suf) == st \o <<" ", "(">> \o str(i) \o <<")">> \o suf

\* names a directory may hold at the start, and names a caller may ask for
EntryNames == {N_Foo, N_Bar} \cup {Candidate(S_Foo, k, DotPdf) : k \in 1..MaxTaken}
NewNames == {N_Foo, N_Bar, S_Foo, Candidate(S_Foo, 1, DotPdf)}

\* Path.exists() of a name of the directory
Exists(name) == name \in DOMAIN fs

\* the directory after Path.rename(src -> dst) went through
Moved(src, dst) ==
    [n \in (DOMAIN fs \ {src}) \cup {dst} |-> IF n = dst THEN fs[src] ELSE fs[n]]

\* Path.rename: os.rename replaces an existing target on POSIX and raises
\* FileExistsError on Windows; a missing source raises on both
RenameRaises(src, dst) ==
    \/ ~Exists(src)
    \/ Exists(dst) /\ dst # src /\ platform = "windows"

IdleCall == [pc |-> "idle", path |-> <<>>, new_name |-> <<>>, dry_run |-> FALSE,
             target |-> <<>>, i |-> 0, before |-> <<>>]
NewCall(path, new_name, dry) ==
    [pc |-> "start", path |-> path, new_name |-> new_name, dry_run |-> dry,
     target |-> <<>>, i |-> 0, before |-> <<>>]

Callers == DOMAIN calls
InProgress(c) == calls[c].pc \in {"probe", "rename"}
\* a step of c between the existence check and the rename of another call
Interleaves(c) == \E o \in Callers \ {c} : InProgress(o)

\* mutant: the numbering starts at 0
RnStart_FromZero(c) ==
    /\ calls[c].pc = "start"
    /\ LET f == calls[c]
           target == f.new_name
       IN  calls' = [calls EXCEPT ![c] =
               [f EXCEPT !.target = target,
                         !.before = fs,
                         !.pc = IF target = f.path THEN "done"
                                ELSE IF Exists(target) THEN "probe"
                                ELSE "rename"]]
    /\ interleaved' = (interleaved \/ Interleaves(c))
    /\ UNCHANGED <<fs, fs0, platform, entry, dry_run, pdfs, outcome>>

\* lines 47-52: the target, the no-op case, the first existence check
RnStart(c) ==
    /\ calls[c].pc = "start"
    /\ LET f == calls[c]
           target == f.new_name
       IN  calls' = [calls EXCEPT ![c] =
               [f EXCEPT !.target = target,
                         !.before = fs,
                         !.i = IF target # f.path /\ Exists(target) THEN 1 ELSE 0,
                         !.pc = IF target = f.path THEN "done"
                                ELSE IF Exists(target) THEN "probe"
                                ELSE "rename"]]
    /\ interleaved' = (interleaved \/ Interleaves(c))
    /\ UNCHANGED <<fs, fs0, platform, entry, dry_run, pdfs, outcome>>

\* mutant: the first numbered name is taken without an existence check
RnProbe_TakesFirst(c) ==
    /\ calls[c].pc = "probe"
    /\ LET f == calls[c]
           cand == Candidate(stem(f.target), f.i, suffix(f.target))
       IN  calls' = [calls EXCEPT ![c] = [f EXCEPT !.target = cand, !.pc = "rename"]]
    /\ interleaved' = (interleaved \/ Interleaves(c))
    /\ UNCHANGED <<fs, fs0, platform, entry, dry_run, pdfs, outcome>>

\* lines 53-58: one round of the search for a free numbered name
RnProbe(c) ==
    /\ calls[c].pc = "probe"
    /\ LET f == calls[c]
           cand == Candidate(stem(f.target), f.i, suffix(f.target))
       IN  calls' = [calls EXCEPT ![c] =
               IF ~Exists(cand)
               THEN [f EXCEPT !.target = cand, !.pc = "rename"]
               ELSE [f EXCEPT !.i = f.i + 1]]
    /\ interleaved' = (interleaved \/ Interleaves(c))
    /\ UNCHANGED <<fs, fs0, platform, entry, dry_run, pdfs, outcome>>

\* mutant: the rename is done with dry_run too
RnRename_IgnoresDryRun(c) ==
    /\ calls[c].pc = "rename"
    /\ LET f == calls[c]
       IN  IF RenameRaises(f.path, f.target)
           THEN /\ fs' = fs
                /\ calls' = [calls EXCEPT ![c].pc = "raised"]
           ELSE /\ fs' = Moved(f.path, f.target)
                /\ calls' = [calls EXCEPT ![c].pc = "done"]
    /\ interleaved' = (interleaved \/ Interleaves(c))
    /\ UNCHANGED <<fs0, platform, entry, dry_run, pdfs, outcome>>

\* lines 59-61: the rename, unless dry_run
RnRename(c) ==
    /\ calls[c].pc = "rename"
    /\ LET f == calls[c]
       IN  IF f.dry_run
           THEN /\ fs' = fs
                /\ calls' = [calls EXCEPT ![c].pc = "done"]
           ELSE IF RenameRaises(f.path, f.target)
                THEN /\ fs' = fs
                     /\ calls' = [calls EXCEPT ![c].pc = "raised"]
                ELSE /\ fs' = Moved(f.path, f.target)
                     /\ calls' = [calls EXCEPT ![c].pc = "done"]
    /\ interleaved' = (interleaved \/ Interleaves(c))
    /\ UNCHANGED <<fs0, platform, entry, dry_run, pdfs, outcome>>

--------------------------------------------------------------------------
(* main: the batch loop, lines 191-207 *)

Tell(kind, src, name) == [kind |-> kind, src |-> src, name |-> name]

\* process_pdf raised (the file cannot be opened): [ERR]
MainErr ==
    /\ entry = "main" /\ pdfs # <<>> /\ calls[1].pc = "idle"
    /\ outcome' = Append(outcome, Tell("ERR", Head(pdfs), <<>>))
    /\ pdfs' = Tail(pdfs)
    /\ UNCHANGED <<fs, fs0, platform, entry, dry_run, calls, interleaved>>

\* src_name == new_name: [SKIP]
MainSkip ==
    /\ entry = "main" /\ pdfs # <<>> /\ calls[1].pc = "idle"
    /\ Exists(Head(pdfs))
    /\ outcome' = Append(outcome, Tell("SKIP", Head(pdfs), Head(pdfs)))
    /\ pdfs' = Tail(pdfs)
    /\ UNCHANGED <<fs, fs0, platform, entry, dry_run, calls, interleaved>>

\* args.dry_run: [DRY], safe_rename is not called
MainDry ==
    /\ entry = "main" /\ pdfs # <<>> /\ calls[1].pc = "idle"
    /\ Exists(Head(pdfs))
    /\ dry_run
    /\ \E new_name \in NewNames \ {Head(pdfs)} :
          outcome' = Append(outcome, Tell("DRY", Head(pdfs), new_name))
    /\ pdfs' = Tail(pdfs)
    /\ UNCHANGED <<fs, fs0, platform, entry, dry_run, calls, interleaved>>

\* otherwise: safe_rename(p, new_name, dry_run=False)
MainCall ==
    /\ entry = "main" /\ pdfs # <<>> /\ calls[1].pc = "idle"
    /\ Exists(Head(pdfs))
    /\ ~dry_run
    /\ \E new_name \in NewNames \ {Head(pdfs)} :
          calls' = [calls EXCEPT ![1] = NewCall(Head(pdfs), new_name, FALSE)]
    /\ UNCHANGED <<fs, fs0, platform, entry, dry_run, pdfs, outcome, interleaved>>

\* safe_rename returned: [OK ]; it raised: [ERR]
MainCollect ==
    /\ entry = "main" /\ pdfs # <<>> /\ calls[1].pc \in {"done", "raised"}
    /\ outcome' = Append(outcome,
                    IF calls[1].pc = "done"
                    THEN Tell("OK", Head(pdfs), calls[1].target)
                    ELSE Tell("ERR", Head(pdfs), <<>>))
    /\ calls' = [calls EXCEPT ![1] = IdleCall]
    /\ pdfs' = Tail(pdfs)
    /\ UNCHANGED <<fs, fs0, platform, entry, dry_run, interleaved>>

--------------------------------------------------------------------------
(* compose_name on long inputs *)

MaxTitleLen == 200

\* a title of n characters: the pattern repeated
Repeated(pattern, n) == [k \in 1..n |-> pattern[((k - 1) % Len(pattern)) + 1]]
TitlePatterns == {<<"a">>, <<"a", " ">>, <<"a", ":", " ">>}
ComposeArgs ==
    [publisher : {None, Some(<<>>), Some(S_ACME)},
     title : {None} \cup {Some(Repeated(pt, n)) : pt \in TitlePatterns, n \in 0..MaxTitleLen},
     first_author : {None, Some(S_Jane \o <<" ">> \o S_Doe)}]
NoArgs == [publisher |-> None, title |-> None, first_author |-> None]

Compose ==
    /\ cn_name = None
    /\ cn_args \in ComposeArgs
    /\ cn_name' = Some(compose_name(cn_args.publisher, cn_args.title, cn_args.first_author))
    /\ UNCHANGED cn_args

--------------------------------------------------------------------------
(* Specifications *)

\* the parts of the program a specification leaves out stay where they are
PipeOff ==
    /\ doc = [name |-> N_a, openable |-> FALSE, pages |-> <<>>,
              meta_title |-> None, meta_author |-> None]
    /\ local_only = FALSE
    /\ pc = "off"
    /\ text_first = <<>>
    /\ doi = None
    /\ lookup = "none"
    /\ msg = NoMessage
    /\ title = None /\ first_author = None /\ publisher = None
    /\ log = <<>>
    /\ result = None
    /\ regCalls = 0
    /\ metaReads = 0

RenOff ==
    /\ fs = <<>> /\ fs0 = <<>>
    /\ platform = "posix"
    /\ entry = "off"
    /\ dry_run = FALSE
    /\ pdfs = <<>>
    /\ outcome = <<>>
    /\ calls = <<>>
    /\ interleaved = FALSE

CompOff == cn_args = NoArgs /\ cn_name = Some(<<>>)

\* a directory: every entry holds its own document
Directories == {[n \in D |-> n] : D \in SUBSET EntryNames \ {{}}}

\* bounded sequences of files given to main
FileLists(D) == UNION {[1..n -> D] : n \in 1..MaxPdfs}

InitDirectory ==
    /\ fs \in Directories
    /\ fs0 = fs
    /\ platform \in {"posix", "windows"}
    /\ outcome = <<>>
    /\ interleaved = FALSE

InitMain ==
    /\ entry = "main"
    /\ dry_run \in BOOLEAN
    /\ pdfs \in FileLists(DOMAIN fs)
    /\ calls = <<IdleCall>>

InitSafeRename ==
    /\ entry = "safe_rename"
    /\ dry_run = FALSE
    /\ pdfs = <<>>
    /\ \E path \in DOMAIN fs, new_name \in NewNames, dry \in BOOLEAN :
          calls = <<NewCall(path, new_name, dry)>>

InitConcurrent ==
    /\ entry = "concurrent"
    /\ dry_run = FALSE
    /\ pdfs = <<>>
    /\ \E p1 \in DOMAIN fs, p2 \in DOMAIN fs, new_name \in NewNames :
          /\ p1 # p2
          /\ calls = <<NewCall(p1, new_name, FALSE), NewCall(p2, new_name, FALSE)>>

\* process_pdf on one document
Init == InitPipe /\ RenOff /\ CompOff
Next ==
    \/ (Open /\ UNCHANGED <<renVars, compVars>>)
    \/ (FindDoi /\ UNCHANGED <<renVars, compVars>>)
    \/ (QueryFails /\ UNCHANGED <<renVars, compVars>>)
    \/ (QueryReturns /\ UNCHANGED <<renVars, compVars>>)
    \/ (Record /\ UNCHANGED <<renVars, compVars>>)
    \/ (Embedded /\ UNCHANGED <<renVars, compVars>>)
    \/ (Defaults /\ UNCHANGED <<renVars, compVars>>)
    \/ (Return /\ UNCHANGED <<renVars, compVars>>)
Spec == Init /\ [][Next]_vars

\* safe_rename called once, or by main's loop
InitRename == PipeOff /\ CompOff /\ InitDirectory /\ (InitMain \/ InitSafeRename)
NextRename ==
    \/ (MainErr /\ UNCHANGED <<pipeVars, compVars>>)
    \/ (MainSkip /\ UNCHANGED <<pipeVars, compVars>>)
    \/ (MainDry /\ UNCHANGED <<pipeVars, compVars>>)
    \/ (MainCall /\ UNCHANGED <<pipeVars, compVars>>)
    \/ (MainCollect /\ UNCHANGED <<pipeVars, compVars>>)
    \/ (\E c \in Callers : RnStart(c) /\ UNCHANGED <<pipeVars, compVars>>)
    \/ (\E c \in Callers : RnProbe(c) /\ UNCHANGED <<pipeVars, compVars>>)
    \/ (\E c \in Callers : RnRename(c) /\ UNCHANGED <<pipeVars, compVars>>)
SpecRename == InitRename /\ [][NextRename]_vars

\* two safe_rename calls for the same new name, their steps interleaved
InitRace == PipeOff /\ CompOff /\ InitDirectory /\ InitConcurrent
NextRace ==
    \/ (\E c \in Callers : RnStart(c) /\ UNCHANGED <<pipeVars, compVars>>)
    \/ (\E c \in Callers : RnProbe(c) /\ UNCHANGED <<pipeVars, compVars>>)
    \/ (\E c \in Callers : RnRename(c) /\ UNCHANGED <<pipeVars, compVars>>)
SpecRace == InitRace /\ [][NextRace]_vars

\* compose_name on its own
InitCompose == PipeOff /\ RenOff /\ cn_args \in ComposeArgs /\ cn_name = None
NextCompose == Compose /\ UNCHANGED <<pipeVars, renVars>>
SpecCompose == InitCompose /\ [][NextCompose]_vars

--------------------------------------------------------------------------
(* Properties of process_pdf *)

\* what each source holds for a field, read off the inputs of the run
LeadingDoi == find_doi(extract_visible_text(doc))
RecordRaises == lookup = "ok" /\ Truthy(msg.author) /\ ~Val(msg.author)[1].wellformed
RegTitle ==
    IF lookup = "ok" /\ Truthy(msg.title) THEN Some(Val(msg.title)[1]) ELSE None
RegAuthor ==
    IF lookup = "ok" /\ Truthy(msg.author) /\ ~RecordRaises
    THEN LET a0 == Val(msg.author)[1]
         IN  Some(strip(a0.given \o <<" ">> \o a0.family))
    ELSE None
RegPublisher ==
    IF lookup = "ok" /\ ~RecordRaises /\ Truthy(msg.publisher) THEN msg.publisher ELSE None
EmbTitle == IF Truthy(doc.meta_title) THEN Some(strip(Val(doc.meta_title))) ELSE None
EmbAuthor == IF Truthy(doc.meta_author) THEN Some(strip(Val(doc.meta_author))) ELSE None

\* the first non-empty value in priority order, the default when there is none
Coalesce(first, second, default) ==
    IF Truthy(first) THEN first ELSE IF Truthy(second) THEN second ELSE Some(default)

Count(entries, texts) == Len(SelectSeq(entries, LAMBDA e : e.text \in texts))
Logged(text) == Count(log, {text}) > 0

\* an Optional text that is absent or has a non-blank value
Plain(o) == o = None \/ strip(Val(o)) # <<>>
\* every source either lacks a field or holds a non-blank value for it, and
\* the record is well formed
PlainInputs ==
    /\ Plain(doc.meta_title) /\ Plain(doc.meta_author)
    /\ msg.title = None \/ Truthy(RegTitle)
    /\ msg.author = None \/ Truthy(RegAuthor)
    /\ msg.publisher = None \/ Truthy(msg.publisher)

\* C1: a field that holds a non-empty value is never changed by a later stage;
\* when every source either lacks a field or holds a non-blank value for it, a
\* field is assigned at most once; and when process_pdf is done each field
\* holds the non-empty value of the highest-priority source that has one:
\* Crossref record, then embedded metadata, then the default (the file-name
\* stem for the title).
C1_FirstWriterWins ==
    /\ [][/\ (Truthy(title) => title' = title)
          /\ (Truthy(first_author) => first_author' = first_author)
          /\ (Truthy(publisher) => publisher' = publisher)]_vars
    /\ [][PlainInputs =>
            /\ (title # None => title' = title)
            /\ (first_author # None => first_author' = first_author)
            /\ (publisher # None => publisher' = publisher)]_vars
    /\ [](pc = "done" =>
            /\ title = Coalesce(RegTitle, EmbTitle, stem(doc.name))
            /\ first_author = Coalesce(RegAuthor, EmbAuthor, UnknownAuthor)
            /\ publisher = Coalesce(RegPublisher, None, UnknownPublisher))

\* a run where Crossref and the embedded metadata both hold a title and an author
C1_Witness ==
    /\ pc = "done" /\ PlainInputs
    /\ Truthy(RegTitle) /\ Truthy(EmbTitle) /\ title = RegTitle /\ title # EmbTitle
    /\ ~Truthy(RegAuthor) /\ Truthy(EmbAuthor) /\ first_author = EmbAuthor
    /\ Truthy(RegPublisher)

\* C3: when query_crossref_by_doi fails, process_pdf does not raise, the log
\* holds exactly one "Crossref failed" entry, the embedded metadata is read and
\* the defaults applied, and the fields end as they do without any record.
C3_LookupFailureNotFatal ==
    lookup = "failed" =>
        /\ pc # "raised"
        /\ Count(log, {"Crossref failed"}) = 1
        /\ pc \in {"defaults", "return", "done"} => metaReads = 1
        /\ pc = "done" =>
              /\ result # None
              /\ title = Coalesce(None, EmbTitle, stem(doc.name))
              /\ first_author = Coalesce(None, EmbAuthor, UnknownAuthor)
              /\ publisher = Some(UnknownPublisher)
              /\ Logged("fallback: unknown publisher")

C3_Witness ==
    /\ lookup = "failed" /\ pc = "done"
    /\ Truthy(EmbTitle) /\ title = EmbTitle
    /\ ~Truthy(EmbAuthor) /\ first_author = Some(UnknownAuthor)

\* C4: query_crossref_by_doi is called at most once, and it is called exactly
\* when local_only is not set and the leading text holds a DOI.
C4_RegistryCalledIff ==
    /\ regCalls <= 1
    /\ regCalls = 1 => ~local_only /\ Truthy(LeadingDoi)
    /\ (pc \in {"record", "embedded", "defaults", "return", "done"}
          /\ ~local_only /\ Truthy(LeadingDoi)) => regCalls = 1

C4_Witness ==
    /\ pc = "done" /\ local_only /\ Truthy(LeadingDoi) /\ regCalls = 0

\* C5: when process_pdf returns, title, first_author and publisher are all
\* non-empty strings.
C5_FieldsNonEmpty ==
    pc = "done" => Truthy(title) /\ Truthy(first_author) /\ Truthy(publisher)

\* a run with blank embedded values and a record whose author has no name
C5_Witness ==
    /\ pc = "done"
    /\ doc.meta_title = Some(<<" ">>) /\ doc.meta_author = Some(<<"\t">>)
    /\ lookup = "ok" /\ RegAuthor = Some(<<>>) /\ ~Truthy(RegTitle)

\* C9 as stated: whenever the leading text holds a DOI the log records it, with
\* local_only too, and the embedded metadata is read whenever Crossref was not
\* queried.
C9_Original ==
    pc = "done" =>
        /\ Truthy(LeadingDoi) => Logged("found DOI")
        /\ regCalls = 0 => metaReads = 1

\* C9 amended: without local_only the log records the DOI of the leading text;
\* with local_only find_doi is not run and nothing is logged about a DOI; the
\* embedded metadata is read whenever Crossref was not queried.
C9_ExtractUnlessLocalOnly ==
    pc = "done" =>
        /\ (~local_only /\ Truthy(LeadingDoi)) =>
               /\ Len(log) > 0
               /\ log[1] = FoundDoi(Val(LeadingDoi))
        /\ local_only => ~Logged("found DOI") /\ doi = None
        /\ regCalls = 0 => metaReads = 1

C9_Witness ==
    /\ pc = "done" /\ local_only /\ Truthy(LeadingDoi)
    /\ ~Logged("found DOI") /\ metaReads = 1

TitleEntries == {"title from Crossref", "title from embedded metadata",
                 "fallback: title from filename"}
AuthorLogEntries == {"author from Crossref", "author from embedded metadata",
                   "fallback: unknown author"}
PublisherEntries == {"publisher from Crossref", "fallback: unknown publisher"}

\* the stage a log entry belongs to
Stage(e) ==
    IF e.text = "found DOI" THEN 0
    ELSE IF e.text \in {"title from Crossref", "author from Crossref",
                        "publisher from Crossref", "Crossref failed"} THEN 1
    ELSE IF e.text \in {"title from embedded metadata",
                        "author from embedded metadata"} THEN 2
    ELSE 3

\* C10 as stated: when process_pdf is done the log holds exactly one source
\* entry for each of title, author and publisher, the entry names the source
\* of the field's final value, and the entries are in resolution order.
C10_Original ==
    pc = "done" =>
        /\ Count(log, TitleEntries) = 1
        /\ Count(log, AuthorLogEntries) = 1
        /\ Count(log, PublisherEntries) = 1
        /\ Logged("title from Crossref") => title = RegTitle
        /\ Logged("title from embedded metadata") => title = EmbTitle
        /\ Logged("author from Crossref") => first_author = RegAuthor
        /\ Logged("author from embedded metadata") => first_author = EmbAuthor
        /\ Logged("publisher from Crossref") => publisher = RegPublisher
        /\ \A k \in 1..(Len(log) - 1) : Stage(log[k]) <= Stage(log[k + 1])

--------------------------------------------------------------------------
(* Properties of safe_rename and main *)

Finished(c) == calls[c].pc \in {"done", "raised"}
\* the k-th numbered name safe_rename tries for a requested name
Numbered(name, k) == Candidate(stem(name), k, suffix(name))
\* the documents a directory holds
Documents(d) == {d[n] : n \in DOMAIN d}

\* C2: a safe_rename call that runs alone never raises and never replaces an
\* entry: every entry other than the source keeps its name and document.  When
\* the requested name differs from the source's and is taken, the source ends
\* up under "{stem} (k){suffix}" for the smallest k >= 1 whose name is free.
\* The search needs at most one round more than the directory has entries.
C2_SmallestFreeName ==
    \A c \in Callers :
        LET f == calls[c]
            size == Cardinality(DOMAIN f.before)
        IN  /\ f.pc # "raised"
            /\ f.pc = "probe" =>
                  /\ f.i >= 1 /\ f.i <= size + 1
                  /\ \A k \in 1..(f.i - 1) : Numbered(f.new_name, k) \in DOMAIN f.before
            /\ (f.pc = "done" /\ ~f.dry_run /\ f.new_name # f.path) =>
                  /\ DOMAIN fs = (DOMAIN f.before \ {f.path}) \cup {f.target}
                  /\ f.target \notin DOMAIN f.before
                  /\ fs[f.target] = f.before[f.path]
                  /\ \A n \in DOMAIN f.before \ {f.path} : fs[n] = f.before[n]
                  /\ f.new_name \notin DOMAIN f.before => f.target = f.new_name
                  /\ f.new_name \in DOMAIN f.before =>
                        \E k \in 1..(size + 1) :
                            /\ f.target = Numbered(f.new_name, k)
                            /\ \A j \in 1..(k - 1) :
                                  Numbered(f.new_name, j) \in DOMAIN f.before

\* Foo.pdf and Foo (1).pdf are taken: the file becomes Foo (2).pdf
C2_Witness ==
    \E c \in Callers :
        /\ calls[c].pc = "done" /\ ~calls[c].dry_run
        /\ calls[c].new_name = N_Foo
        /\ calls[c].path = N_Bar
        /\ calls[c].target = Candidate(S_Foo, 2, DotPdf)
        /\ fs[Candidate(S_Foo, 2, DotPdf)] = N_Bar

\* C6: safe_rename with dry_run leaves the directory as it was and returns a
\* name that is free (or the source's own name); main with --dry-run never
\* calls safe_rename and leaves the directory as it was.
C6_DryRunNoMutation ==
    /\ (entry = "safe_rename" /\ calls[1].dry_run) =>
          /\ fs = fs0
          /\ calls[1].pc = "done" =>
                \/ calls[1].target = calls[1].path
                \/ calls[1].target \notin DOMAIN fs
    /\ (entry = "main" /\ dry_run) =>
          /\ fs = fs0
          /\ calls[1].pc = "idle"
          /\ \A k \in 1..Len(outcome) : outcome[k].kind # "OK"

\* a dry run that had to number the name
C6_Witness ==
    /\ entry = "safe_rename" /\ calls[1].dry_run /\ calls[1].pc = "done"
    /\ calls[1].new_name = N_Foo
    /\ calls[1].target = Candidate(S_Foo, 1, DotPdf)

\* main with --dry-run got through its files
C6_MainWitness ==
    /\ entry = "main" /\ dry_run /\ pdfs = <<>>
    /\ \E k \in 1..Len(outcome) : outcome[k].kind = "DRY"

\* C8 as stated: after two concurrent safe_rename calls for the same new name,
\* interleaved in any way, every document of the directory still exists.
C8_Original ==
    (\A c \in Callers : Finished(c)) => Documents(fs) = Documents(fs0)

\* C8 amended: when the two calls do not interleave (one call's existence
\* checks and rename are over before the other call starts), neither raises
\* and every document of the directory still exists, the two renamed ones
\* under distinct names.
C8_NoOverwriteWhenNotInterleaved ==
    ((\A c \in Callers : Finished(c)) /\ ~interleaved) =>
        /\ Documents(fs) = Documents(fs0)
        /\ \A c \in Callers : calls[c].pc = "done"
        /\ calls[1].target # calls[2].target
        /\ fs[calls[1].target] = calls[1].path
        /\ fs[calls[2].target] = calls[2].path

\* the first call takes the name, the second one numbers it
C8_Witness ==
    /\ \A c \in Callers : calls[c].pc = "done"
    /\ ~interleaved
    /\ calls[1].new_name \notin DOMAIN fs0
    /\ calls[1].target = calls[1].new_name
    /\ calls[2].target = Numbered(calls[2].new_name, 1)
    /\ Documents(fs) = Documents(fs0)

--------------------------------------------------------------------------
(* Properties of compose_name *)

EndsWith(s, tail) ==
    Len(s) >= Len(tail) /\ SubSeq(s, Len(s) - Len(tail) + 1, Len(s)) = tail

\* C7 as stated: compose_name returns at most 180 characters ending in ".pdf".
C7_Original ==
    cn_name # None =>
        /\ Len(Val(cn_name)) <= max_len
        /\ EndsWith(Val(cn_name), DotPdf)

====
